---- MODULE Spec2Model ----
(***************************************************************************)
(* A model of the procman deputy (bot2-procman/src/deputy/procman_deputy.c) *)
(* as the state machine its glib main loop runs: one action per callback   *)
(* (orders message, child stdout watch, SIGCHLD, shutdown signal, timers)  *)
(* and one per step of the environment (a child writes, a child exits, the *)
(* clock advances).  Callbacks run to completion, so each is one action.   *)
(***************************************************************************)
EXTENDS Integers, Sequences, FiniteSets, TLC

VARIABLES
    table,                  \* procman's command list, in list order
    os,                     \* child processes and their stdout pipes, by pid
    sources,                \* glib IO watches: pid of the watched pipe -> condition mask
    sigchld,                \* a SIGCHLD is waiting in the signal pipe
    now,                    \* the wall clock, microseconds
    norders_slm,            \* orders observed since the last MARK
    norders_forme_slm,      \* orders for this deputy since the last MARK
    nstale_orders_slm,      \* stale orders for this deputy since the last MARK
    observed_sheriffs_slm,  \* sheriff names observed since the last MARK
    last_sheriff_name,      \* most recently observed sheriff
    quit,                   \* g_main_loop_quit was called
    out,                    \* what the last callback published and called, in order
    last,                   \* the last callback and its input
    prev,                   \* the accepted order before the last one, and what it did
    cpu_time,               \* the system counters read by the last two samples
    cpu_load                \* the load computed by the last sample, as loaded / elapsed

vars == <<table, os, sources, sigchld, now, norders_slm, norders_forme_slm,
          nstale_orders_slm, observed_sheriffs_slm, last_sheriff_name, quit,
          out, last, prev, cpu_time, cpu_load>>

(***************************************************************************)
(* Program constants.                                                      *)
(***************************************************************************)
KILL_MIN_INTERVAL_USEC == 900000

MAX_TERM_KILLS == 5

PROCMAN_MAX_MESSAGE_AGE_USEC == 60000000

NULL == "NULL"

Hostname == "host"

\* a condition mask that asks for hangups as well
WatchConditionHup == {"G_IO_IN", "G_IO_HUP"}

\* the condition mask start_cmd gives g_io_add_watch
WatchCondition == {"G_IO_IN"}

(***************************************************************************)
(* Bounds of the model.                                                    *)
(***************************************************************************)
\* the clock starts at StartTime and advances by TimeStep, MaxTicks times
\* (MaxTicksEsc times where a whole kill escalation is followed)
TimeStep == 450000

StartTime == 1000000

MaxTicks == 2

MaxTicksEsc == 13

\* desired_runid ranges over 0 .. MaxRunId
MaxRunId == 1

\* an order carries at most MaxCmds command records
MaxCmds == 2

\* at most MaxOrdersSlm orders are received between two MARKs
MaxOrdersSlm == 1

\* and at most MaxOrdersCount where only the counters are followed
MaxOrdersCount == 3
\* the orders of the sheriff of SpecLive
MaxBeats == 9
\* the highest reading of a system counter
MaxJiffies == 2
\* the most output a pipe holds, in reads of pipe_data_ready
MaxPending == 2

RunIds == 0 .. MaxRunId

\* sys_cpu_mem_t, the counters update_cpu_times reads
Samples == [user : 0 .. MaxJiffies, user_low : 0 .. MaxJiffies,
            system : 0 .. MaxJiffies, idle : 0 .. MaxJiffies]

\* the counters after memset (line 849)
NoSample == [user |-> 0, user_low |-> 0, system |-> 0, idle |-> 0]

(***************************************************************************)
(* Sequence helpers.                                                       *)
(***************************************************************************)
RECURSIVE SeqsUpTo(_, _)
SeqsUpTo(S, n) ==
    IF n = 0 THEN {<<>>}
    ELSE LET shorter == SeqsUpTo(S, n - 1)
         IN  shorter \cup {Append(s, x) : s \in {t \in shorter : Len(t) = n - 1}, x \in S}

Indices(s) == 1 .. Len(s)

RemoveAt(s, i) == SubSeq(s, 1, i - 1) \o SubSeq(s, i + 1, Len(s))

Min(S) == CHOOSE x \in S : \A y \in S : x <= y

(***************************************************************************)
(* The state a callback works on.  M is the part of the state a callback   *)
(* reads and writes while it runs: the command list, the processes and     *)
(* pipes, the glib watches, the pending SIGCHLD, what it has published so  *)
(* far, and procman_deputy_order_received's local action_taken.            *)
(***************************************************************************)
Emit(M, e) == [M EXCEPT !.out = Append(@, e)]

Without(f, k) == [x \in DOMAIN f \ {k} |-> f[x]]

\* transmit_str: one PMD_PRINTF message
transmit_str(M, sid, text) == Emit(M, [type |-> "printf", sheriff_id |-> sid, text |-> text])

\* printf_and_transmit: one PMD_PRINTF message with the formatted text, none
\* when the text is empty (line 148)
printf_and_transmit(M, sid, text) ==
    IF text # "" THEN Emit(M, [type |-> "printf", sheriff_id |-> sid, text |-> text])
    ELSE M

\* transmit_proc_info: one PMD_INFO message with a record per command of the list
transmit_proc_info(M) == Emit(M, [type |-> "info", cmds |-> M.table])

(***************************************************************************)
(* The process manager (procman.c), by its interface.                      *)
(***************************************************************************)
\* procman_add_cmd: a new command at the end of the list, not running; its
\* private data is the calloc'ed pmd_cmd_moreinfo_t of the caller
procman_add_cmd(M, name) ==
    [M EXCEPT !.table = Append(@,
        [name |-> name, pid |-> 0, stdout_fd |-> 0,
         stdout_ioc |-> FALSE, stdout_sid |-> 0, actual_runid |-> 0,
         sheriff_id |-> 0, group |-> NULL, nickname |-> NULL,
         num_kills_sent |-> 0, last_kill_time |-> 0, remove_requested |-> FALSE,
         user |-> TRUE])]

\* procman_remove_cmd: takes a command that is not running off the list, and
\* refuses one that is running
procman_remove_cmd(M, i) ==
    IF M.table[i].pid # 0 THEN M
    ELSE [M EXCEPT !.table = RemoveAt(M.table, i)]

\* procman_get_cmd_status
procman_get_cmd_status(cmd) == IF cmd.pid # 0 THEN "RUNNING" ELSE "STOPPED"

\* procman_cmd_change_str
procman_cmd_change_str(M, i, name) == [M EXCEPT !.table[i].name = name]

FreshPid(M) == Min({p \in 1 .. (Cardinality(DOMAIN M.os) + 1) : p \notin DOMAIN M.os})

Forked(M, i, pid) ==
    Emit([M EXCEPT !.table[i].pid = pid,
                   !.table[i].stdout_fd = pid,
                   !.os = pid :> [proc |-> "alive", data |-> 0, status |-> "none",
                                  sigs |-> <<>>] @@ @],
         [type |-> "spawn", sheriff_id |-> M.table[i].sheriff_id, pid |-> pid])

\* procman_start_cmd: pipe, fork, exec; the parent records pid and stdout_fd.
\* On failure the command is left as it was.
procman_start_cmd(M, i, spawnOk) ==
    IF ~spawnOk THEN M ELSE Forked(M, i, FreshPid(M))

\* procman_kill_cmd: kill(pid, sig).  A delivered SIGKILL ends the process; what
\* a delivered SIGTERM does is the child's choice (see ChildExit).
procman_kill_cmd(M, i, sig, t, killOk) ==
    LET pid == M.table[i].pid
        sent == [t |-> t, sig |-> sig, ok |-> killOk]
        M1 == Emit([M EXCEPT !.os[pid].sigs = Append(@, sent)],
                   [type |-> "kill", sheriff_id |-> M.table[i].sheriff_id,
                    pid |-> pid, sig |-> sig, ok |-> killOk])
    IN  IF killOk /\ sig = "SIGKILL" /\ M.os[pid].proc = "alive"
        THEN [M1 EXCEPT !.os[pid].proc = "zombie", !.os[pid].status = "signaled",
                        !.sigchld = TRUE]
        ELSE M1

\* the command procman_check_for_dead_children reaps next: 0 when none has exited
DeadChild(M) ==
    LET dead == {i \in Indices(M.table) :
                    /\ M.table[i].pid # 0
                    /\ M.table[i].pid \in DOMAIN M.os
                    /\ M.os[M.table[i].pid].proc = "zombie"}
    IN  IF dead = {} THEN 0 ELSE Min(dead)

\* procman_check_for_dead_children: waitpid(WNOHANG); zeroes the pid of the reaped command
procman_check_for_dead_children(M) ==
    LET i == DeadChild(M)
    IN  IF i = 0 THEN M
        ELSE [M EXCEPT !.os[M.table[i].pid].proc = "gone", !.table[i].pid = 0]

\* procman_close_dead_pipes: closes the stdout pipe of a command that is not running
procman_close_dead_pipes(M, i) ==
    LET fd == M.table[i].stdout_fd
    IN  IF M.table[i].pid # 0 \/ fd = 0 THEN M
        ELSE [M EXCEPT !.table[i].stdout_fd = 0, !.os = Without(@, fd)]

(***************************************************************************)
(* The deputy's functions.  A command is named by its index i in the list. *)
(***************************************************************************)
\* read (cmd->stdout_fd, buf, sizeof (buf) - 1) on the non-blocking pipe and
\* what lines 172-183 publish: the bytes of one read when the pipe holds some,
\* nothing at end of file (the child has exited and the pipe is empty), and
\* the error when the read fails (EAGAIN while the child is alive and the
\* pipe is empty, EBADF when the pipe is closed)
ReadPipe(M, i) ==
    IF M.table[i].stdout_fd \notin DOMAIN M.os
    THEN transmit_str(M, M.table[i].sheriff_id, "read: error")
    ELSE IF M.os[M.table[i].stdout_fd].data > 0
    THEN transmit_str([M EXCEPT !.os[M.table[i].stdout_fd].data = @ - 1],
                      M.table[i].sheriff_id, "output")
    ELSE IF M.os[M.table[i].stdout_fd].proc = "alive"
    THEN transmit_str(M, M.table[i].sheriff_id, "read: error")
    ELSE M

\* one of the tests of lines 169-216: the message of a condition that is set
OnCondition(M, condition, c, i, text) ==
    IF c \in condition THEN transmit_str(M, M.table[i].sheriff_id, text) ELSE M

\* pipe_data_ready: the read and the messages, in the order of the tests
pipe_data_ready(M, condition, i) ==
    OnCondition(
      OnCondition(
        OnCondition(
          OnCondition(
            OnCondition(IF "G_IO_IN" \in condition THEN ReadPipe(M, i) ELSE M,
                        condition, "G_IO_ERR", i, "detected G_IO_ERR"),
            condition, "G_IO_HUP", i, "detected G_IO_HUP"),
          condition, "G_IO_NVAL", i, "detected G_IO_NVAL"),
        condition, "G_IO_PRI", i, "unexpected G_IO_PRI"),
      condition, "G_IO_OUT", i, "unexpected G_IO_OUT")

\* pipe_data_ready's return value: FALSE takes the watch off the main loop
pipe_data_ready_result(condition) ==
    ~("G_IO_HUP" \in condition \/ "G_IO_NVAL" \in condition)

\* a start that leaves the kill counters of the previous run
StartedKeepsCounters(M, i, desired_runid) ==
    [M EXCEPT !.table[i].stdout_ioc = TRUE,
              !.table[i].stdout_sid = M.table[i].stdout_fd,
              !.sources = M.table[i].stdout_fd :> WatchCondition @@ @,
              !.table[i].actual_runid = desired_runid]

\* a start that leaves the time of the last kill of the previous run
StartedKeepsKillTime(M, i, desired_runid) ==
    [M EXCEPT !.table[i].stdout_ioc = TRUE,
              !.table[i].stdout_sid = M.table[i].stdout_fd,
              !.sources = M.table[i].stdout_fd :> WatchCondition @@ @,
              !.table[i].actual_runid = desired_runid,
              !.table[i].num_kills_sent = 0]

\* start_cmd, after procman_start_cmd succeeded: the stdout watch and the counters
Started(M, i, desired_runid) ==
    [M EXCEPT !.table[i].stdout_ioc = TRUE,
              !.table[i].stdout_sid = M.table[i].stdout_fd,
              !.sources = M.table[i].stdout_fd :> WatchCondition @@ @,
              !.table[i].actual_runid = desired_runid,
              !.table[i].num_kills_sent = 0,
              !.table[i].last_kill_time = 0]

\* start_cmd, after procman_start_cmd failed: the two messages
NotStarted(M, i) ==
    printf_and_transmit(printf_and_transmit(M, 0, "couldn't start"),
                        M.table[i].sheriff_id, "ERROR!  couldn't start")

\* a start_cmd that does not look at the result of procman_start_cmd
start_cmd_unchecked(M, i, desired_runid, spawnOk) ==
    Started(procman_start_cmd(
                Emit(M, [type |-> "start", sheriff_id |-> M.table[i].sheriff_id,
                         runid |-> desired_runid]), i, spawnOk),
            i, desired_runid)

\* start_cmd: lines 224-256
start_cmd(M, i, desired_runid, spawnOk) ==
    IF spawnOk
    THEN Started(procman_start_cmd(
                     Emit(M, [type |-> "start", sheriff_id |-> M.table[i].sheriff_id,
                              runid |-> desired_runid]), i, spawnOk),
                 i, desired_runid)
    ELSE NotStarted(procman_start_cmd(
                     Emit(M, [type |-> "start", sheriff_id |-> M.table[i].sheriff_id,
                              runid |-> desired_runid]), i, spawnOk), i)

\* a rate limit that takes the clock for milliseconds
RateLimitedMillis(gh, t) ==
    gh.last_kill_time # 0 /\ t < gh.last_kill_time + KILL_MIN_INTERVAL_USEC \div 1000

\* the rate limit of stop_cmd: TRUE when the call returns without signalling
RateLimited(gh, t) ==
    gh.last_kill_time # 0 /\ t < gh.last_kill_time + KILL_MIN_INTERVAL_USEC

\* a stop_cmd that never escalates
KillSignalTerm(gh) == "SIGTERM"

\* an escalation that is one call early
KillSignalEarly(gh) == IF gh.num_kills_sent >= MAX_TERM_KILLS THEN "SIGKILL" ELSE "SIGTERM"

\* the signal stop_cmd chooses
KillSignal(gh) == IF gh.num_kills_sent > MAX_TERM_KILLS THEN "SIGKILL" ELSE "SIGTERM"

\* a stop_cmd that counts the signals that were delivered only
KillCountsDelivered(M, i, t, killOk) ==
    IF killOk
    THEN [procman_kill_cmd(M, i, KillSignal(M.table[i]), t, killOk)
             EXCEPT !.table[i].num_kills_sent = @ + 1,
                    !.table[i].last_kill_time = t]
    ELSE printf_and_transmit(
             procman_kill_cmd(M, i, KillSignal(M.table[i]), t, killOk),
             M.table[i].sheriff_id, "kill: error")

\* stop_cmd, past the rate limit: the signal, the counters, the message on failure
Kill(M, i, t, killOk) ==
    IF killOk
    THEN [procman_kill_cmd(M, i, KillSignal(M.table[i]), t, killOk)
             EXCEPT !.table[i].num_kills_sent = @ + 1,
                    !.table[i].last_kill_time = t]
    ELSE printf_and_transmit(
             [procman_kill_cmd(M, i, KillSignal(M.table[i]), t, killOk)
                 EXCEPT !.table[i].num_kills_sent = @ + 1,
                        !.table[i].last_kill_time = t],
             M.table[i].sheriff_id, "kill: error")

stop_cmd(M, i, t, killOk) ==
    IF M.table[i].pid = 0 \/ RateLimited(M.table[i], t)
    THEN Emit(M, [type |-> "stop", sheriff_id |-> M.table[i].sheriff_id,
                  pid |-> M.table[i].pid])
    ELSE Kill(Emit(M, [type |-> "stop", sheriff_id |-> M.table[i].sheriff_id,
                       pid |-> M.table[i].pid]), i, t, killOk)

\* a lookup that finds nothing
find_local_cmd_none(tbl, sheriff_id) == 0

\* find_local_cmd: the first command of the list with this sheriff_id, 0 for NULL
find_local_cmd(tbl, sheriff_id) ==
    LET found == {i \in Indices(tbl) : tbl[i].sheriff_id = sheriff_id}
    IN  IF found = {} THEN 0 ELSE Min(found)

\* procmd_orders_find_cmd: whether the order names this sheriff_id
procmd_orders_find_cmd(cmds, sheriff_id) ==
    \E k \in Indices(cmds) : cmds[k].sheriff_id = sheriff_id

(***************************************************************************)
(* procman_deputy_order_received, the part that carries the orders out.    *)
(***************************************************************************)
\* a decision that starts a stopped command in spite of force_quit
ReconcileActionNoForceQuit(cmd_status, actual_runid, cmd) ==
    IF cmd_status = "STOPPED" /\ actual_runid # cmd.desired_runid
    THEN "start"
    ELSE IF cmd_status = "RUNNING" /\ (cmd.force_quit \/ cmd.desired_runid # actual_runid)
    THEN "stop"
    ELSE "none"

\* a decision that starts a stopped command whatever its actual_runid
ReconcileActionIgnoreRunid(cmd_status, actual_runid, cmd) ==
    IF cmd_status = "STOPPED" /\ ~cmd.force_quit
    THEN "start"
    ELSE IF cmd_status = "RUNNING" /\ (cmd.force_quit \/ cmd.desired_runid # actual_runid)
    THEN "stop"
    ELSE "none"

\* the branch the per-command if / else if / else takes
ReconcileAction(cmd_status, actual_runid, cmd) ==
    IF cmd_status = "STOPPED" /\ actual_runid # cmd.desired_runid /\ ~cmd.force_quit
    THEN "start"
    ELSE IF cmd_status = "RUNNING" /\ (cmd.force_quit \/ cmd.desired_runid # actual_runid)
    THEN "stop"
    ELSE "none"

\* lines 656-674: the command with this sheriff_id, created when there is none
\* a new command that takes the run id of the order as already reached
CreatedAtRunid(M, cmd) ==
    [M EXCEPT !.table[Len(M.table)].sheriff_id = cmd.sheriff_id,
              !.table[Len(M.table)].group = cmd.group,
              !.table[Len(M.table)].nickname = cmd.nickname,
              !.table[Len(M.table)].actual_runid = cmd.desired_runid,
              !.p = Len(M.table),
              !.action_taken = TRUE]

Created(M, cmd) ==
    [M EXCEPT !.table[Len(M.table)].sheriff_id = cmd.sheriff_id,
              !.table[Len(M.table)].group = cmd.group,
              !.table[Len(M.table)].nickname = cmd.nickname,
              !.p = Len(M.table),
              !.action_taken = TRUE]

\* a lookup that takes a command an order names off the removal schedule
LookupUnschedules(M, cmd) ==
    IF find_local_cmd(M.table, cmd.sheriff_id) # 0
    THEN [M EXCEPT !.p = find_local_cmd(M.table, cmd.sheriff_id),
                   !.table[find_local_cmd(M.table, cmd.sheriff_id)].remove_requested = FALSE]
    ELSE Created(procman_add_cmd(M, cmd.name), cmd)

Lookup(M, cmd) ==
    IF find_local_cmd(M.table, cmd.sheriff_id) # 0
    THEN [M EXCEPT !.p = find_local_cmd(M.table, cmd.sheriff_id)]
    ELSE Created(procman_add_cmd(M, cmd.name), cmd)

\* line 677
Status(M) == [M EXCEPT !.cmd_status = procman_get_cmd_status(M.table[M.p])]

\* a rename that does not count as an action taken
RenameSilent(M, cmd) ==
    IF M.table[M.p].name # cmd.name
    THEN procman_cmd_change_str(M, M.p, cmd.name)
    ELSE M

\* lines 679-703: name, nickname and group follow the order
Rename(M, cmd) ==
    IF M.table[M.p].name # cmd.name
    THEN [procman_cmd_change_str(M, M.p, cmd.name) EXCEPT !.action_taken = TRUE]
    ELSE M

\* a change of nickname that does not count as an action taken
SetNicknameSilent(M, cmd) ==
    IF M.table[M.p].nickname # cmd.nickname
    THEN [M EXCEPT !.table[M.p].nickname = cmd.nickname]
    ELSE M

SetNickname(M, cmd) ==
    IF M.table[M.p].nickname # cmd.nickname
    THEN [M EXCEPT !.table[M.p].nickname = cmd.nickname, !.action_taken = TRUE]
    ELSE M

SetGroup(M, cmd) ==
    IF M.table[M.p].group # cmd.group
    THEN [M EXCEPT !.table[M.p].group = cmd.group, !.action_taken = TRUE]
    ELSE M

\* what the command looks like when lines 705-717 decide
Observed(M, cmd) ==
    Emit(M, [type |-> "reconcile", sheriff_id |-> cmd.sheriff_id,
             pid |-> M.table[M.p].pid, actual_runid |-> M.table[M.p].actual_runid,
             desired_runid |-> cmd.desired_runid, force_quit |-> cmd.force_quit])

\* lines 705-717 with the stop branch setting actual_runid too
StartOrStopAssign(M, cmd, t, spawnOk, killOk) ==
    IF ReconcileAction(M.cmd_status, M.table[M.p].actual_runid, cmd) = "start"
    THEN [start_cmd(Observed(M, cmd), M.p, cmd.desired_runid, spawnOk)
             EXCEPT !.action_taken = TRUE,
                    !.table[M.p].actual_runid = cmd.desired_runid]
    ELSE IF ReconcileAction(M.cmd_status, M.table[M.p].actual_runid, cmd) = "stop"
    THEN [stop_cmd(Observed(M, cmd), M.p, t, killOk)
             EXCEPT !.action_taken = TRUE,
                    !.table[M.p].actual_runid = cmd.desired_runid]
    ELSE [Observed(M, cmd) EXCEPT !.table[M.p].actual_runid = cmd.desired_runid]

\* lines 705-717 without the assignment of line 710
StartOrStopNoAssign(M, cmd, t, spawnOk, killOk) ==
    IF ReconcileAction(M.cmd_status, M.table[M.p].actual_runid, cmd) = "start"
    THEN [start_cmd(Observed(M, cmd), M.p, cmd.desired_runid, spawnOk)
             EXCEPT !.action_taken = TRUE]
    ELSE IF ReconcileAction(M.cmd_status, M.table[M.p].actual_runid, cmd) = "stop"
    THEN [stop_cmd(Observed(M, cmd), M.p, t, killOk) EXCEPT !.action_taken = TRUE]
    ELSE [Observed(M, cmd) EXCEPT !.table[M.p].actual_runid = cmd.desired_runid]

\* lines 705-717
StartOrStop(M, cmd, t, spawnOk, killOk) ==
    IF ReconcileAction(M.cmd_status, M.table[M.p].actual_runid, cmd) = "start"
    THEN [start_cmd(Observed(M, cmd), M.p, cmd.desired_runid, spawnOk)
             EXCEPT !.action_taken = TRUE,
                    !.table[M.p].actual_runid = cmd.desired_runid]
    ELSE IF ReconcileAction(M.cmd_status, M.table[M.p].actual_runid, cmd) = "stop"
    THEN [stop_cmd(Observed(M, cmd), M.p, t, killOk) EXCEPT !.action_taken = TRUE]
    ELSE [Observed(M, cmd) EXCEPT !.table[M.p].actual_runid = cmd.desired_runid]

\* one pass of the loop over orders->cmds
ReconcileCmd(M, cmd, t, spawnOk, killOk) ==
    StartOrStop(SetGroup(SetNickname(Rename(Status(Lookup(M, cmd)), cmd), cmd), cmd),
                cmd, t, spawnOk, killOk)

RECURSIVE ReconcileCmds(_, _, _, _, _, _)
ReconcileCmds(M, cmds, k, t, spawnOk, killOk) ==
    IF k > Len(cmds) THEN M
    ELSE ReconcileCmds(ReconcileCmd(M, cmds[k], t, spawnOk, killOk),
                       cmds, k + 1, t, spawnOk, killOk)

\* the commands of the list that the order does not name, in list order
Orphans(tbl, cmds) ==
    {i \in Indices(tbl) : ~procmd_orders_find_cmd(cmds, tbl[i].sheriff_id)}

\* a cull that stops a running orphan without scheduling its removal
CullRunningNoFlag(M, i, t, killOk) == stop_cmd(M, i, t, killOk)

\* the cull of a running orphan: schedule it for removal and stop it
CullRunning(M, i, t, killOk) ==
    stop_cmd([M EXCEPT !.table[i].remove_requested = TRUE], i, t, killOk)

RECURSIVE CullRunningFrom(_, _, _, _, _)
CullRunningFrom(M, toremove, i, t, killOk) ==
    IF i > Len(M.table) THEN M
    ELSE IF i \in toremove /\ M.table[i].pid # 0
    THEN CullRunningFrom(CullRunning(M, i, t, killOk), toremove, i + 1, t, killOk)
    ELSE CullRunningFrom(M, toremove, i + 1, t, killOk)

\* the cull of the orphans that are not running: each is taken off the list.
\* Taken from the end of the list, so that the indices still to come stay put.
RECURSIVE CullStoppedFrom(_, _, _)
CullStoppedFrom(M, toremove, i) ==
    IF i = 0 THEN M
    ELSE IF i \in toremove /\ M.table[i].pid = 0
    THEN CullStoppedFrom(procman_remove_cmd([M EXCEPT !.table[i].user = FALSE], i),
                         toremove, i - 1)
    ELSE CullStoppedFrom(M, toremove, i - 1)

Cull(M, toremove, t, killOk) ==
    IF toremove = {} THEN M
    ELSE [CullStoppedFrom(CullRunningFrom(M, toremove, 1, t, killOk),
                          toremove, Len(M.table))
             EXCEPT !.action_taken = TRUE]

CullOrphans(M, cmds, t, killOk) == Cull(M, Orphans(M.table, cmds), t, killOk)

\* lines 760-761
Publish(M) == IF M.action_taken THEN transmit_proc_info(M) ELSE M

\* lines 643-762: the loop over the commands, the cull, the publication
CarryOut(M, cmds, t, spawnOk, killOk) ==
    Publish(CullOrphans(ReconcileCmds(M, cmds, 1, t, spawnOk, killOk), cmds, t, killOk))

\* a staleness test with the difference taken the wrong way round
IsStaleReversed(t, utime) == utime - t > PROCMAN_MAX_MESSAGE_AGE_USEC

\* lines 612-622: the staleness test
IsStale(t, utime) == t - utime > PROCMAN_MAX_MESSAGE_AGE_USEC

RECURSIVE StaleLog(_, _, _)
StaleLog(M, cmds, k) ==
    IF k > Len(cmds) THEN M
    ELSE StaleLog(printf_and_transmit(M, cmds[k].sheriff_id, "ignoring stale orders"),
                  cmds, k + 1)

\* lines 624-641: the sheriffs seen since the last MARK, newest first
ObserveSheriff(observed, name) ==
    IF \E k \in Indices(observed) : observed[k] = name THEN observed
    ELSE <<name>> \o observed

(***************************************************************************)
(* check_for_dead_children and remove_all_cmds.                            *)
(***************************************************************************)
\* lines 322-328: when poll reports POLLIN, one read of the pipe is published
Drain(M, i) ==
    IF M.table[i].stdout_fd \in DOMAIN M.os /\ M.os[M.table[i].stdout_fd].data > 0
    THEN pipe_data_ready(M, {"G_IO_IN"}, i) ELSE M

\* lines 330-340
SignalLog(M, i) ==
    IF M.table[i].stdout_fd \notin DOMAIN M.os THEN M
    ELSE IF M.os[M.table[i].stdout_fd].status = "dumped"
    THEN printf_and_transmit(printf_and_transmit(M, M.table[i].sheriff_id, "strsignal"),
                             M.table[i].sheriff_id, "Core dumped.")
    ELSE IF M.os[M.table[i].stdout_fd].status = "signaled"
    THEN printf_and_transmit(M, M.table[i].sheriff_id, "strsignal")
    ELSE M

\* lines 342-354: the watch is taken off the main loop and the pipe closed
Detach(M, i) ==
    IF M.table[i].stdout_ioc
    THEN procman_close_dead_pipes(
             [M EXCEPT !.sources = Without(@, M.table[i].stdout_sid),
                       !.table[i].stdout_ioc = FALSE,
                       !.table[i].stdout_sid = 0], i)
    ELSE M

\* a reap that leaves a command scheduled for removal on the list
RemoveIfRequestedNever(M, i) == M

\* lines 356-366
RemoveIfRequested(M, i) ==
    IF M.table[i].remove_requested
    THEN procman_remove_cmd([M EXCEPT !.table[i].user = FALSE], i) ELSE M

\* the body of the while loop for the reaped command i: lines 367-369 reap the
\* next one before the telemetry of this one is published
RECURSIVE ReapLoop(_, _)
\* a handler that reaps one child for each SIGCHLD
ReapNextNone(M) == transmit_proc_info(M)

ReapNext(M) ==
    ReapLoop(transmit_proc_info(procman_check_for_dead_children(M)), DeadChild(M))

ReapLoop(M, i) ==
    IF i = 0 THEN M
    ELSE ReapNext(RemoveIfRequested(Detach(SignalLog(Drain(M, i), i), i), i))

check_for_dead_children(M) ==
    ReapLoop(procman_check_for_dead_children(M), DeadChild(M))

\* lines 293-307 for the command at index i: stop_cmd when it is running,
\* then the private data is freed and procman_remove_cmd called
RemoveOne(M, i, t, killOk) ==
    IF M.table[i].pid # 0
    THEN procman_remove_cmd([stop_cmd(M, i, t, killOk) EXCEPT !.table[i].user = FALSE], i)
    ELSE procman_remove_cmd([M EXCEPT !.table[i].user = FALSE], i)

\* remove_all_cmds: over a copy of the list, from its head; left commands of
\* the copy are still to come, and the next of them is at index i, or at
\* i + 1 when the one at i stayed on the list
RECURSIVE RemoveAllFrom(_, _, _, _, _)
RemoveAllFrom(M, i, left, t, killOk) ==
    IF left = 0 THEN M
    ELSE RemoveAllFrom(RemoveOne(M, i, t, killOk),
                       i + 1 - (Len(M.table) - Len(RemoveOne(M, i, t, killOk).table)),
                       left - 1, t, killOk)

remove_all_cmds(M, t, killOk) == RemoveAllFrom(M, 1, Len(M.table), t, killOk)

(***************************************************************************)
(* The callbacks of the main loop.                                         *)
(***************************************************************************)
Local == [table |-> table, os |-> os, sources |-> sources, sigchld |-> sigchld,
          out |-> <<>>, action_taken |-> FALSE, p |-> 0, cmd_status |-> "STOPPED"]

Commit(M) ==
    /\ table' = M.table
    /\ os' = M.os
    /\ sources' = M.sources
    /\ sigchld' = M.sigchld
    /\ out' = M.out

\* the main loop is between two callbacks and has not been told to quit
Idle == [kind |-> "idle"]

Polling == ~quit /\ last = Idle

NoOrder == [some |-> FALSE, cmds |-> <<>>, stop |-> FALSE, doomed |-> FALSE, failed |-> {}]

CalledStop(o) == \E k \in Indices(o) : o[k].type = "stop"

\* the commands for which start_cmd was called and spawned nothing
FailedStarts(o) ==
    {o[k].sheriff_id : k \in {j \in Indices(o) :
        /\ o[j].type = "start"
        /\ ~\E m \in Indices(o) : o[m].type = "spawn" /\ o[m].sheriff_id = o[j].sheriff_id}}

\* a command of the list is scheduled for removal
Doomed(tbl) == \E i \in Indices(tbl) : tbl[i].remove_requested

\* a host test that lets every order through
ForMeAlways(orders) == TRUE

\* lines 605-609: the order is for this deputy
ForMe(orders) == orders.host = Hostname

\* procman_deputy_order_received, called at time t
Handled(orders, t, spawnOk, killOk, track) ==
    /\ norders_slm' = norders_slm + 1
    /\ UNCHANGED <<quit, cpu_time, cpu_load>>
    /\ IF ~ForMe(orders)
       THEN /\ Commit(Local)
            /\ last' = [kind |-> "order", verdict |-> "other", orders |-> orders]
            /\ UNCHANGED <<norders_forme_slm, nstale_orders_slm,
                           observed_sheriffs_slm, last_sheriff_name, prev>>
       ELSE IF IsStale(t, orders.utime)
       THEN /\ norders_forme_slm' = norders_forme_slm + 1
            /\ nstale_orders_slm' = nstale_orders_slm + 1
            /\ Commit(StaleLog(Local, orders.cmds, 1))
            /\ last' = [kind |-> "order", verdict |-> "stale", orders |-> orders]
            /\ UNCHANGED <<observed_sheriffs_slm, last_sheriff_name, prev>>
       ELSE \E M \in {CarryOut(Local, orders.cmds, t, spawnOk, killOk)} :
                /\ norders_forme_slm' = norders_forme_slm + 1
                /\ observed_sheriffs_slm' =
                       ObserveSheriff(observed_sheriffs_slm, orders.sheriff_name)
                /\ last_sheriff_name' = orders.sheriff_name
                /\ Commit(M)
                /\ last' = [kind |-> "order", verdict |-> "accepted", orders |-> orders,
                            before |-> prev]
                /\ prev' = IF track
                           THEN [some |-> TRUE, cmds |-> orders.cmds,
                                 stop |-> CalledStop(M.out), doomed |-> Doomed(M.table),
                                 failed |-> FailedStarts(M.out)]
                           ELSE prev
                /\ UNCHANGED nstale_orders_slm

\* procman_deputy_order_received: timestamp_now (line 613) reads the clock
Received(orders, spawnOk, killOk, track) ==
    /\ Handled(orders, now, spawnOk, killOk, track)
    /\ UNCHANGED now

\* the main loop dispatches the handler of PMD_ORDERS
Order(orders, spawnOk, killOk, track) ==
    /\ Polling
    /\ Received(orders, spawnOk, killOk, track)

\* procman_deputy_order_received, with at most MaxOrdersSlm orders between two MARKs
OrderReceived(orders, spawnOk, killOk, track) ==
    /\ norders_slm < MaxOrdersSlm
    /\ Order(orders, spawnOk, killOk, track)

\* the main loop dispatches the stdout watch of the run pid: poll reports
\* POLLIN when bytes wait and POLLHUP when the write end is closed, and glib
\* passes the callback the reported conditions that the watch asked for
Revents(pid) ==
    (IF os[pid].data > 0 THEN {"G_IO_IN"} ELSE {})
        \cup (IF os[pid].proc # "alive" THEN {"G_IO_HUP"} ELSE {})

WatchedCmd(pid) == CHOOSE i \in Indices(table) : table[i].stdout_sid = pid

PipeDataReady(pid) ==
    /\ Polling
    /\ pid \in DOMAIN sources
    /\ \E i \in Indices(table) : table[i].stdout_sid = pid
    /\ \E condition \in {Revents(pid) \cap sources[pid]},
          M \in {pipe_data_ready(Local, Revents(pid) \cap sources[pid], WatchedCmd(pid))} :
           /\ condition # {}
           /\ Commit(IF pipe_data_ready_result(condition) THEN M
                     ELSE [M EXCEPT !.sources = Without(@, pid)])
           /\ last' = [kind |-> "pipe", pid |-> pid]
    /\ UNCHANGED <<now, norders_slm, norders_forme_slm, nstale_orders_slm,
                   observed_sheriffs_slm, last_sheriff_name, quit, prev, cpu_time, cpu_load>>

\* glib_handle_signal (SIGCHLD)
HandleSigchld ==
    /\ Polling
    /\ sigchld
    /\ Commit(check_for_dead_children([Local EXCEPT !.sigchld = FALSE]))
    /\ last' = [kind |-> "sigchld"]
    /\ UNCHANGED <<now, norders_slm, norders_forme_slm, nstale_orders_slm,
                   observed_sheriffs_slm, last_sheriff_name, quit, prev, cpu_time, cpu_load>>

\* glib_handle_signal (SIGINT, SIGHUP, SIGQUIT, SIGTERM)
HandleQuitSignal(killOk) ==
    /\ Polling
    /\ Commit(remove_all_cmds(Local, now, killOk))
    /\ quit' = TRUE
    /\ last' = [kind |-> "quit"]
    /\ UNCHANGED <<now, norders_slm, norders_forme_slm, nstale_orders_slm,
                   observed_sheriffs_slm, last_sheriff_name, prev, cpu_time, cpu_load>>

\* uint64_t: a value is its four 16-bit limbs, the least significant first
Limb == 2 ^ 16

U64(n) == <<n % Limb, (n \div Limb) % Limb, 0, 0>>

RECURSIVE Borrow(_, _, _)
Borrow(x, y, k) ==
    IF k = 0 THEN 0
    ELSE IF x[k] - y[k] - Borrow(x, y, k - 1) < 0 THEN 1 ELSE 0

\* x - y modulo 2^64
Sub64(x, y) == [k \in 1 .. 4 |-> (x[k] - y[k] - Borrow(x, y, k - 1) + Limb) % Limb]

RECURSIVE Carry(_, _, _)
Carry(x, y, k) ==
    IF k = 0 THEN 0
    ELSE IF x[k] + y[k] + Carry(x, y, k - 1) >= Limb THEN 1 ELSE 0

\* x + y modulo 2^64
Add64(x, y) == [k \in 1 .. 4 |-> (x[k] + y[k] + Carry(x, y, k - 1)) % Limb]

\* x < y
Less64(x, y) ==
    \E k \in 1 .. 4 : x[k] < y[k] /\ \A j \in (k + 1) .. 4 : x[j] = y[j]

\* the width of the counters of sys_cpu_mem_t in 16-bit limbs: the type is
\* declared in procinfo.h, and the counters are uint32_t or uint64_t
CounterLimbs == {2, 4}

\* the value of an expression computed in n limbs, widened to uint64_t
Trunc(x, n) == [k \in 1 .. 4 |-> IF k <= n THEN x[k] ELSE 0]

\* a - b of two counters, in the unsigned arithmetic of n limbs
Minus(a, b, n) == Trunc(Sub64(U64(a), U64(b)), n)

\* update_cpu_times, lines 454-457: the sum is computed in the type of the
\* counters and assigned to a uint64_t
ellapsed_jiffies(a, b, n) ==
    Trunc(Add64(Add64(Add64(Minus(a.user, b.user, n), Minus(a.user_low, b.user_low, n)),
                      Minus(a.system, b.system, n)),
                Minus(a.idle, b.idle, n)), n)

\* update_cpu_times, lines 458-460
loaded_jiffies(a, b, n) ==
    Trunc(Add64(Add64(Minus(a.user, b.user, n), Minus(a.user_low, b.user_low, n)),
                Minus(a.system, b.system, n)), n)

\* update_cpu_times, lines 461-465: the load, as the fraction num / den of
\* two uint64_t values (the division is done in double)
Load(a, b, n) ==
    IF ellapsed_jiffies(a, b, n) = U64(0) THEN [num |-> U64(0), den |-> U64(1)]
    ELSE [num |-> loaded_jiffies(a, b, n), den |-> ellapsed_jiffies(a, b, n)]

\* update_cpu_times: the counters read go to cpu_time[1], the load is taken
\* against cpu_time[0], and cpu_time[1] is copied to cpu_time[0] (line 501).
\* The figures of the commands are not part of the state.
update_cpu_times(sample) ==
    /\ \E n \in CounterLimbs : cpu_load' = Load(sample, cpu_time[0], n)
    /\ cpu_time' = [i \in 0 .. 1 |-> sample]

\* one_second_timeout, when procinfo_read_sys_cpu_mem reads sample
Tick(sample) ==
    /\ update_cpu_times(sample)
    /\ Commit(transmit_proc_info(Local))
    /\ last' = [kind |-> "tick"]
    /\ UNCHANGED <<now, norders_slm, norders_forme_slm, nstale_orders_slm,
                   observed_sheriffs_slm, last_sheriff_name, quit, prev>>

\* the main loop dispatches the 1 s timer and the counters read are any
SampledTick == \E sample \in Samples : Polling /\ Tick(sample)

\* the main loop dispatches the 1 s timer while the system counters stand still
OneSecondTimeout == Polling /\ Tick(cpu_time[1])

\* an introspection_timeout that resets norders_slm alone
IntrospectionTimeoutPartial ==
    /\ norders_slm' = 0
    /\ Commit(Local)
    /\ last' = [kind |-> "mark"]
    /\ UNCHANGED <<now, norders_forme_slm, nstale_orders_slm, observed_sheriffs_slm,
                   last_sheriff_name, quit, prev, cpu_time, cpu_load>>

\* introspection_timeout
Mark ==
    /\ norders_slm' = 0
    /\ norders_forme_slm' = 0
    /\ nstale_orders_slm' = 0
    /\ observed_sheriffs_slm' = <<>>
    /\ Commit(Local)
    /\ last' = [kind |-> "mark"]
    /\ UNCHANGED <<now, last_sheriff_name, quit, prev, cpu_time, cpu_load>>

\* the main loop dispatches the 120 s timer
IntrospectionTimeout == Polling /\ Mark

(***************************************************************************)
(* After g_main_loop_quit.  The call only clears the loop's running flag:  *)
(* g_main_loop_run returns when the current iteration is over, and the     *)
(* sources that this iteration found ready are still dispatched, each      *)
(* once, in the order main attached them: the signal pipe (line 890), LCM  *)
(* (line 894), the two timers (lines 901 and 904), and the stdout watches  *)
(* of the children, which start_cmd attaches later.                        *)
(***************************************************************************)
\* the place in the dispatch order of the source whose callback ran last
Rank(l) ==
    CASE l.kind = "quit" -> 0
      [] l.kind = "order" -> 1
      [] l.kind = "tick" -> 2
      [] l.kind = "mark" -> 3
      [] OTHER -> 4

\* the loop was told to quit and the iteration has not reached the source of rank r
Late(r) == quit /\ Rank(last) < r

\* some command of the list has had its private data freed
Freed(tbl) == \E i \in Indices(tbl) : ~tbl[i].user

\* remove_all_cmds leaves every command that is still running on the list with
\* cmd->user = NULL (lines 301-305): a callback that reads the private data of
\* a command dereferences the null pointer, and the deputy dies of SIGSEGV
Crash ==
    /\ last' = [kind |-> "crash"]
    /\ out' = <<>>
    /\ UNCHANGED <<table, os, sources, sigchld, now, norders_slm, norders_forme_slm,
                   nstale_orders_slm, observed_sheriffs_slm, last_sheriff_name,
                   quit, prev, cpu_time, cpu_load>>

\* an order that was waiting when the shutdown signal was handled: find_local_cmd
\* (line 572) and the search for orphans (line 727) read the private data of
\* the commands
LateOrder(orders, spawnOk, killOk) ==
    /\ Late(1)
    /\ IF ForMe(orders) /\ ~IsStale(now, orders.utime) /\ Freed(table)
       THEN Crash
       ELSE Received(orders, spawnOk, killOk, FALSE)

\* the 1 s timer was due and procinfo_read_sys_cpu_mem reads sample:
\* update_cpu_times and transmit_proc_info read the private data of every
\* command
LateTick(sample) ==
    /\ Late(2)
    /\ IF Freed(table) THEN Crash ELSE Tick(sample)

\* the 120 s timer was due: introspection_timeout reads cmd->pid only
LateMark == Late(3) /\ Mark

\* the stdout watch of a child was ready: pipe_data_ready publishes what it
\* read under mi->sheriff_id
LatePipe(pid) ==
    /\ Late(4)
    /\ pid \in DOMAIN sources
    /\ pid \in DOMAIN os
    /\ os[pid].data > 0
    /\ Crash

\* the callback returns to the main loop, which polls again
Return ==
    /\ ~quit
    /\ last # Idle
    /\ last' = Idle
    /\ out' = <<>>
    /\ UNCHANGED <<table, os, sources, sigchld, now, norders_slm, norders_forme_slm,
                   nstale_orders_slm, observed_sheriffs_slm, last_sheriff_name,
                   quit, prev, cpu_time, cpu_load>>

(***************************************************************************)
(* The environment: the children and the clock.                            *)
(***************************************************************************)
Env(M) ==
    /\ table' = M.table
    /\ os' = M.os
    /\ sources' = M.sources
    /\ sigchld' = M.sigchld
    /\ UNCHANGED <<out, last, now, norders_slm, norders_forme_slm, nstale_orders_slm,
                   observed_sheriffs_slm, last_sheriff_name, quit, prev, cpu_time, cpu_load>>

\* a running child writes to its stdout: one more read of pipe_data_ready
\* is pending
ChildOutput(pid) ==
    /\ Polling
    /\ pid \in DOMAIN os
    /\ os[pid].proc = "alive"
    /\ os[pid].data < MaxPending
    /\ Env([Local EXCEPT !.os[pid].data = @ + 1])

\* a running child exits: of its own, killed by a signal (of the deputy or
\* of anyone), or killed by a signal that dumps core
ChildExit(pid, status) ==
    /\ Polling
    /\ pid \in DOMAIN os
    /\ os[pid].proc = "alive"
    /\ Env([Local EXCEPT !.os[pid].proc = "zombie", !.os[pid].status = status,
                         !.sigchld = TRUE])

\* the clock advances
Advance(maxTicks) ==
    /\ Polling
    /\ now < StartTime + maxTicks * TimeStep
    /\ now' = now + TimeStep
    /\ UNCHANGED <<out, last, table, os, sources, sigchld, norders_slm, norders_forme_slm,
                   nstale_orders_slm, observed_sheriffs_slm, last_sheriff_name,
                   quit, prev, cpu_time, cpu_load>>

(***************************************************************************)
(* The orders the sheriff sends, and the specifications.                   *)
(***************************************************************************)
SheriffCmds(sids, runids, names) ==
    [sheriff_id : sids, name : names, nickname : {"nick"}, group : {"group"},
     desired_runid : runids, force_quit : BOOLEAN]

Orders(host, utime, sheriff_name, cmds) ==
    [host |-> host, utime |-> utime, sheriff_name |-> sheriff_name, cmds |-> cmds]

\* orders that are dropped, or accepted at the edge of the staleness test
EdgeOrders(t) ==
    {Orders(h, t - age, sh, cmds) :
        h \in {Hostname, "other"},
        age \in {PROCMAN_MAX_MESSAGE_AGE_USEC, PROCMAN_MAX_MESSAGE_AGE_USEC + 1},
        sh \in {"sheriff", "sheriff2"},
        cmds \in SeqsUpTo(SheriffCmds({1}, {1}, {"a"}), MaxCmds)}

Init ==
    /\ table = <<>>
    /\ os = <<>>
    /\ sources = <<>>
    /\ sigchld = FALSE
    /\ now = StartTime
    /\ norders_slm = 0
    /\ norders_forme_slm = 0
    /\ nstale_orders_slm = 0
    /\ observed_sheriffs_slm = <<>>
    /\ last_sheriff_name = NULL
    /\ quit = FALSE
    /\ out = <<>>
    /\ last = Idle
    /\ prev = NoOrder
    /\ cpu_time = [i \in 0 .. 1 |-> NoSample]
    /\ cpu_load = [num |-> U64(0), den |-> U64(1)]

\* the children and the timers
Children ==
    \/ \E pid \in DOMAIN sources : PipeDataReady(pid)
    \/ HandleSigchld
    \/ \E pid \in DOMAIN os : ChildOutput(pid)
    \/ \E pid \in DOMAIN os, status \in {"exited", "signaled", "dumped"} : ChildExit(pid, status)

(* One command (sheriff_id 1), every run id, start and kill failures, the   *)
(* clock, dropped orders, shutdown.                                         *)
Next ==
    \/ \E cmds \in SeqsUpTo(SheriffCmds({1}, RunIds, {"a"}), MaxCmds),
          spawnOk \in BOOLEAN, killOk \in BOOLEAN :
            OrderReceived(Orders(Hostname, now, "sheriff", cmds), spawnOk, killOk, FALSE)
    \/ \E orders \in EdgeOrders(now) : OrderReceived(orders, TRUE, TRUE, FALSE)
    \/ Children
    \/ \E killOk \in BOOLEAN : HandleQuitSignal(killOk)
    \/ OneSecondTimeout
    \/ IntrospectionTimeout
    \/ Advance(MaxTicks)
    \/ Return

Spec == Init /\ [][Next]_vars

(* Two commands (sheriff_id 1 and 2) in orders of up to MaxCmds records,    *)
(* with the run id fixed and the clock standing still.                      *)
NextTwo ==
    \/ \E cmds \in SeqsUpTo(SheriffCmds({1, 2}, {1}, {"a"}), MaxCmds),
          spawnOk \in BOOLEAN :
            OrderReceived(Orders(Hostname, now, "sheriff", cmds), spawnOk, TRUE, FALSE)
    \/ Children
    \/ OneSecondTimeout
    \/ IntrospectionTimeout
    \/ Return

SpecTwo == Init /\ [][NextTwo]_vars

(* One command, started and then told to quit again and again while the    *)
(* clock runs long enough for the whole escalation; the child may ignore   *)
(* SIGTERM or exit.                                                         *)
NextEsc ==
    \/ \E cmds \in SeqsUpTo(SheriffCmds({1}, {1}, {"a"}), 1), killOk \in BOOLEAN :
            OrderReceived(Orders(Hostname, now, "sheriff", cmds), TRUE, killOk, FALSE)
    \/ HandleSigchld
    \/ \E pid \in DOMAIN os, status \in {"exited", "signaled", "dumped"} : ChildExit(pid, status)
    \/ IntrospectionTimeout
    \/ Advance(MaxTicksEsc)
    \/ Return

SpecEsc == Init /\ [][NextEsc]_vars

(* Shutdown: one command, and the callbacks that were ready when the       *)
(* shutdown signal was handled.                                             *)
NextQuit ==
    \/ \E cmds \in SeqsUpTo(SheriffCmds({1}, {1}, {"a"}), 1) :
            OrderReceived(Orders(Hostname, now, "sheriff", cmds), TRUE, TRUE, FALSE)
    \/ Children
    \/ \E killOk \in BOOLEAN : HandleQuitSignal(killOk)
    \/ OneSecondTimeout
    \/ IntrospectionTimeout
    \/ Advance(MaxTicks)
    \/ Return
    \/ \E orders \in EdgeOrders(now) : LateOrder(orders, TRUE, TRUE)
    \/ \E sample \in Samples : LateTick(sample)
    \/ LateMark
    \/ \E pid \in DOMAIN sources : LatePipe(pid)

SpecQuit == Init /\ [][NextQuit]_vars

\* the period of a sheriff that sends its orders as far apart as stop_cmd
\* wants two signals to be
Period == 2 * TimeStep

\* a period passes and the next order of the sheriff is handled
Beat(cmds, killOk) ==
    /\ Polling
    /\ now + Period <= StartTime + MaxBeats * Period
    /\ now' = now + Period
    /\ Handled(Orders(Hostname, now + Period, "sheriff", cmds), now + Period,
               TRUE, killOk, FALSE)

(* One command whose child ignores SIGTERM and a sheriff that sends an     *)
(* order every period, or falls silent.  The main loop keeps returning     *)
(* from its callbacks and keeps dispatching the 1 s timer.                 *)
SheriffBeat ==
    \E cmds \in SeqsUpTo(SheriffCmds({1}, RunIds, {"a"}), 1) : Beat(cmds, TRUE)

NextLive ==
    \/ SheriffBeat
    \/ HandleSigchld
    \/ OneSecondTimeout
    \/ Return

SpecLive ==
    Init /\ [][NextLive]_vars /\ WF_vars(Return) /\ WF_vars(OneSecondTimeout)

(* The sampler alone: the 1 s timer with every reading of the counters.     *)
NextCpu ==
    \/ SampledTick
    \/ Return

SpecCpu == Init /\ [][NextCpu]_vars

(* One command whose name the sheriff changes between two names.            *)
NextName ==
    \/ \E cmds \in SeqsUpTo(SheriffCmds({1}, {1}, {"a", "b"}), 1) :
            OrderReceived(Orders(Hostname, now, "sheriff", cmds), TRUE, TRUE, FALSE)
    \/ Children
    \/ IntrospectionTimeout
    \/ Return

SpecName == Init /\ [][NextName]_vars

\* the records a sheriff can send for one command whose name, nickname and
\* group it changes
LabelledCmds ==
    [sheriff_id : {1}, name : {"a", "b"}, nickname : {"nick", "nick2"},
     group : {"group", "group2"}, desired_runid : RunIds, force_quit : BOOLEAN]

(* One command whose name, nickname, group and run id the sheriff changes,  *)
(* or that it leaves out of its order.                                      *)
NextLabel ==
    \/ \E cmds \in SeqsUpTo(LabelledCmds, 1), spawnOk \in BOOLEAN :
            OrderReceived(Orders(Hostname, now, "sheriff", cmds), spawnOk, TRUE, FALSE)
    \/ HandleSigchld
    \/ \E pid \in DOMAIN os : ChildExit(pid, "exited")
    \/ IntrospectionTimeout
    \/ Return

SpecLabel == Init /\ [][NextLabel]_vars

\* orders for this deputy or another, fresh or stale, with one record or none
CountedOrders(t) ==
    {Orders(h, t - age, "sheriff", cmds) :
        h \in {Hostname, "other"},
        age \in {0, PROCMAN_MAX_MESSAGE_AGE_USEC + 1},
        cmds \in SeqsUpTo(SheriffCmds({1}, {1}, {"a"}), 1)}

(* Up to MaxOrdersCount orders of every kind between two MARKs.             *)
NextCount ==
    \/ \E orders \in CountedOrders(now) :
          /\ norders_slm < MaxOrdersCount
          /\ Order(orders, TRUE, TRUE, FALSE)
    \/ IntrospectionTimeout
    \/ Return

SpecCount == Init /\ [][NextCount]_vars

\* orders whose first record is for sheriff_id 1 and whose later records are
\* for sheriff_id 1 or 2
BatchesFrom(batches, n) ==
    {b \in batches : Len(b) = n /\ (n > 0 => b[1].sheriff_id = 1)}

Batches ==
    UNION {BatchesFrom(SeqsUpTo(SheriffCmds({1, 2}, RunIds, {"a"}), MaxCmds), n) :
              n \in 0 .. MaxCmds}

(* Two commands and every run id, with what the previous accepted order was *)
(* and did kept for the next one; children exit and are reaped in between.  *)
NextTwice ==
    \/ \E cmds \in Batches, spawnOk \in BOOLEAN :
            OrderReceived(Orders(Hostname, now, "sheriff", cmds), spawnOk, TRUE, TRUE)
    \/ HandleSigchld
    \/ \E pid \in DOMAIN os : ChildExit(pid, "exited")
    \/ IntrospectionTimeout
    \/ Return

SpecTwice == Init /\ [][NextTwice]_vars

(***************************************************************************)
(* What the properties are stated over: the calls and messages of the last *)
(* callback (out), its input (last) and the state before and after it.     *)
(***************************************************************************)
EventsOf(o, type) == {k \in Indices(o) : o[k].type = type}

\* l is an order for this deputy that the staleness test lets through at time t
Accepted(l, t) ==
    /\ l.kind = "order"
    /\ l.orders.host = Hostname
    /\ t - l.orders.utime <= PROCMAN_MAX_MESSAGE_AGE_USEC

HandlesOf(tbl, sid) == {i \in Indices(tbl) : tbl[i].sheriff_id = sid}

\* the event after the k-th is a call of this type on the same command
Follows(o, k, type) ==
    k < Len(o) /\ o[k + 1].type = type /\ o[k + 1].sheriff_id = o[k].sheriff_id

\* the number of the command record whose reconciliation the k-th event reports
RecordOf(o, k) == Cardinality({j \in EventsOf(o, "reconcile") : j <= k})

TransitionTable(tbl, cmds, o) ==
    /\ Cardinality(EventsOf(o, "reconcile")) = Len(cmds)
    /\ \A k \in EventsOf(o, "reconcile") :
          LET e   == o[k]
              r   == RecordOf(o, k)
              cmd == cmds[r]
          IN  /\ e.sheriff_id = cmd.sheriff_id
              /\ e.desired_runid = cmd.desired_runid
              /\ e.force_quit = cmd.force_quit
              /\ (\A j \in 1 .. (r - 1) : cmds[j].sheriff_id # cmd.sheriff_id) =>
                    IF HandlesOf(tbl, cmd.sheriff_id) = {}
                    THEN e.pid = 0 /\ e.actual_runid = 0
                    ELSE \E i \in HandlesOf(tbl, cmd.sheriff_id) :
                            e.pid = tbl[i].pid /\ e.actual_runid = tbl[i].actual_runid
              /\ Follows(o, k, "start") <=>
                    (e.pid = 0 /\ ~e.force_quit /\ e.desired_runid # e.actual_runid)
              /\ Follows(o, k, "stop") <=>
                    (e.pid # 0 /\ (e.force_quit \/ e.desired_runid # e.actual_runid))
    /\ \A k \in EventsOf(o, "start") : k > 1 /\ o[k - 1].type = "reconcile"
    /\ \A k \in EventsOf(o, "spawn") : k > 1 /\ o[k - 1].type = "start"
    /\ \A k \in EventsOf(o, "kill") : k > 1 /\ o[k - 1].type = "stop"
    /\ \A k \in EventsOf(o, "stop") :
          \/ k > 1 /\ o[k - 1].type = "reconcile"
          \/ ~procmd_orders_find_cmd(cmds, o[k].sheriff_id)

\* C1: when an accepted order is carried out, each command record is met with
\* the call the transition table gives for the state the command is in at that
\* moment: start_cmd exactly when it is stopped, force_quit is false and
\* desired_runid differs from actual_runid; stop_cmd exactly when it is running
\* and force_quit is true or desired_runid differs from actual_runid; otherwise
\* nothing is spawned and nothing is signalled for it.
C1_TransitionTable ==
    [][Accepted(last', now') => TransitionTable(table, last'.orders.cmds, out')]_vars

\* an order whose first record started the command and whose second stopped it
C1_Witness ==
    /\ Accepted(last, now)
    /\ \E k \in EventsOf(out, "reconcile") : Follows(out, k, "start")
    /\ \E k \in EventsOf(out, "reconcile") : Follows(out, k, "stop")

\* the stdout watch of a command is on the main loop
Watched(cmd, srcs) == cmd.stdout_ioc /\ cmd.stdout_sid \in DOMAIN srcs

\* C2: between callbacks, a command is stopped (pid = 0) exactly when no
\* stdout watch is registered for it; a running command has its stdout pipe
\* open and watched, a stopped one has the pipe closed and no watch.
C2_PidIffWatch ==
    \A i \in Indices(table) :
        /\ table[i].pid = 0 <=> ~Watched(table[i], sources)
        /\ table[i].pid = 0 => table[i].stdout_fd = 0 /\ table[i].stdout_sid = 0
        /\ table[i].pid # 0 =>
              /\ table[i].stdout_fd # 0
              /\ table[i].stdout_fd \in DOMAIN os
              /\ table[i].stdout_sid = table[i].stdout_fd

\* the watch of a child that has exited was dispatched with the pipe hung up,
\* while another command is stopped
C2_Witness ==
    /\ last.kind = "pipe"
    /\ os[last.pid].proc = "zombie"
    /\ \E i \in Indices(table) : table[i].pid = last.pid
    /\ \E j \in Indices(table) : table[j].pid = 0

\* the command with this sheriff_id is in the list before and after the step
\* as tbl[i] and tbl2[j]
SameCmd(tbl, i, tbl2, j) == tbl[i].sheriff_id = tbl2[j].sheriff_id

Spawned(o, sid) == \E k \in EventsOf(o, "spawn") : o[k].sheriff_id = sid

\* C3 as stated: actual_runid of a command never decreases, and changes only
\* in a step that spawns the command.
C3_Original ==
    [][\A i \in Indices(table), j \in Indices(table') :
          SameCmd(table, i, table', j) =>
            /\ table'[j].actual_runid >= table[i].actual_runid
            /\ table'[j].actual_runid # table[i].actual_runid =>
                  Spawned(out', table[i].sheriff_id)]_vars

\* C3, amended: actual_runid of a command changes only while an accepted
\* order is carried out that names the command and meets it stopped, and then
\* to the desired_runid of a record that names it (whether or not anything
\* is spawned); it never changes while the command runs nor in any other
\* callback; a command an order creates ends with the desired_runid of a
\* record that names it.
C3_RunidFollowsOrders ==
    [][/\ \A i \in Indices(table), j \in Indices(table') :
            (SameCmd(table, i, table', j)
                /\ table'[j].actual_runid # table[i].actual_runid) =>
              /\ Accepted(last', now')
              /\ table[i].pid = 0
              /\ \E k \in Indices(last'.orders.cmds) :
                    /\ last'.orders.cmds[k].sheriff_id = table[i].sheriff_id
                    /\ last'.orders.cmds[k].desired_runid = table'[j].actual_runid
       /\ \A j \in Indices(table') :
            HandlesOf(table, table'[j].sheriff_id) = {} =>
              /\ Accepted(last', now')
              /\ \E k \in Indices(last'.orders.cmds) :
                    /\ last'.orders.cmds[k].sheriff_id = table'[j].sheriff_id
                    /\ last'.orders.cmds[k].desired_runid = table'[j].actual_runid]_vars

\* an order with force_quit met a stopped command and lowered its
\* actual_runid without spawning anything
C3_Witness ==
    /\ Accepted(last, now)
    /\ Len(last.orders.cmds) = 1
    /\ \E k \in EventsOf(out, "reconcile"), i \in Indices(table) :
          /\ out[k].pid = 0
          /\ out[k].force_quit
          /\ out[k].desired_runid < out[k].actual_runid
          /\ table[i].sheriff_id = out[k].sheriff_id
          /\ table[i].actual_runid = out[k].desired_runid
    /\ EventsOf(out, "spawn") = {}

\* the order's command records name this sheriff_id
Names(cmds, sid) == \E k \in Indices(cmds) : cmds[k].sheriff_id = sid

\* C4: the commands of the list are unique by sheriff_id in every state, and
\* once an accepted order has been carried out every sheriff_id it names, be
\* it in several records, is the sheriff_id of exactly one command of the list.
C4_UniqueSheriffId ==
    /\ \A i, j \in Indices(table) :
          table[i].sheriff_id = table[j].sheriff_id => i = j
    /\ Accepted(last, now) =>
          \A k \in Indices(last.orders.cmds) :
              Cardinality(HandlesOf(table, last.orders.cmds[k].sheriff_id)) = 1

\* an order with two records of the same sheriff_id was carried out
C4_Witness ==
    /\ Accepted(last, now)
    /\ Len(last.orders.cmds) = 2
    /\ last.orders.cmds[1].sheriff_id = last.orders.cmds[2].sheriff_id
    /\ Len(table) = 1
    /\ EventsOf(out, "spawn") # {}

\* C5: when an accepted order has been carried out, every command of the list
\* that the order does not name is off the list if it was not running, and
\* otherwise is still on it with remove_requested set and stop_cmd called on
\* it; after an order without records nothing else is on the list.
C5_OrphansCulled ==
    [][Accepted(last', now') =>
         /\ \A i \in Indices(table) :
               ~Names(last'.orders.cmds, table[i].sheriff_id) =>
                 IF table[i].pid = 0
                 THEN HandlesOf(table', table[i].sheriff_id) = {}
                 ELSE /\ \E j \in HandlesOf(table', table[i].sheriff_id) :
                           table'[j].remove_requested /\ table'[j].pid = table[i].pid
                      /\ \E k \in EventsOf(out', "stop") :
                           /\ out'[k].sheriff_id = table[i].sheriff_id
                           /\ out'[k].pid = table[i].pid
         /\ last'.orders.cmds = <<>> =>
               \A j \in Indices(table') :
                   table'[j].remove_requested /\ table'[j].pid # 0]_vars

\* an order without records found commands on the list and left a running one
\* of them, signalled and scheduled for removal
C5_Witness ==
    /\ Accepted(last, now)
    /\ last.orders.cmds = <<>>
    /\ Len(table) = 1
    /\ table[1].remove_requested
    /\ \E k \in EventsOf(out, "kill") : out[k].pid = table[1].pid
    /\ \E k \in EventsOf(out, "info") : Len(out[k].cmds) = 1

\* the events of o of this type that are about the process pid
EventsOn(o, type, pid) == {k \in EventsOf(o, type) : o[k].pid = pid}

\* the signals sent to one run of a child are KILL_MIN_INTERVAL_USEC apart
Spaced(procs) ==
    \A pid \in DOMAIN procs : \A a, b \in Indices(procs[pid].sigs) :
        a < b => procs[pid].sigs[b].t - procs[pid].sigs[a].t >= KILL_MIN_INTERVAL_USEC

\* what the stop_cmd calls of one callback, at time t, did to the running
\* command tbl[i], which is tbl2[j] afterwards
StopCalls(tbl, i, tbl2, j, o, t) ==
    IF tbl[i].last_kill_time # 0 /\ t - tbl[i].last_kill_time < KILL_MIN_INTERVAL_USEC
    THEN /\ EventsOn(o, "kill", tbl[i].pid) = {}
         /\ tbl2[j].num_kills_sent = tbl[i].num_kills_sent
         /\ tbl2[j].last_kill_time = tbl[i].last_kill_time
    ELSE /\ Cardinality(EventsOn(o, "kill", tbl[i].pid)) = 1
         /\ tbl2[j].num_kills_sent = tbl[i].num_kills_sent + 1
         /\ tbl2[j].last_kill_time = t

\* C6: two signals sent to the same run of a child are at least 900000
\* microseconds apart; however many times one callback calls stop_cmd on a
\* running child, it sends one signal when the last one is at least that old
\* (or there was none) and otherwise none, and then num_kills_sent and
\* last_kill_time stay as they were.
C6_RateLimit ==
    [][/\ Spaced(os')
       /\ \A i \in Indices(table), j \in Indices(table') :
            (/\ table[i].pid # 0
             /\ table'[j].pid = table[i].pid
             /\ EventsOn(out', "stop", table[i].pid) # {}) =>
                StopCalls(table, i, table', j, out', now')]_vars

\* a child was signalled, signalled again 900 ms later, and a second stop_cmd
\* call of the same callback was held back
C6_Witness ==
    \E pid \in DOMAIN os :
        /\ Len(os[pid].sigs) = 2
        /\ Cardinality(EventsOn(out, "stop", pid)) = 2
        /\ Cardinality(EventsOn(out, "kill", pid)) = 1

\* C7: within one run of a child the signals stop_cmd sends (its kill calls,
\* those that fail included) are SIGTERM for the first six and SIGKILL from
\* the seventh on, and num_kills_sent counts them, so that the signal of a
\* call is SIGTERM exactly when num_kills_sent is at most 5 at the call.
C7_Escalation ==
    /\ \A pid \in DOMAIN os : \A k \in Indices(os[pid].sigs) :
          os[pid].sigs[k].sig = IF k <= 6 THEN "SIGTERM" ELSE "SIGKILL"
    /\ \A i \in Indices(table) :
          table[i].pid # 0 => table[i].num_kills_sent = Len(os[table[i].pid].sigs)

\* a child that ignored six SIGTERMs was sent SIGKILL
C7_Witness ==
    \E pid \in DOMAIN os :
        /\ Len(os[pid].sigs) = 7
        /\ os[pid].sigs[7].sig = "SIGKILL"
        /\ os[pid].proc = "zombie"

\* l is an order for this deputy that is older at time t than the threshold
StaleOrder(l, t) ==
    /\ l.kind = "order"
    /\ l.orders.host = Hostname
    /\ t - l.orders.utime > PROCMAN_MAX_MESSAGE_AGE_USEC

\* C10: an order for this deputy that is older than the staleness threshold
\* adds one to nstale_orders_slm and publishes one message per command
\* record, for the sheriff_id of the record, and nothing else: nothing is
\* spawned or signalled, the command list, the processes and the watches stay
\* as they were, no PMD_INFO is published, and the observed sheriffs and the
\* last sheriff name are unchanged.
C10_StaleOrder ==
    [][StaleOrder(last', now') =>
         /\ nstale_orders_slm' = nstale_orders_slm + 1
         /\ Len(out') = Len(last'.orders.cmds)
         /\ \A k \in Indices(out') :
               /\ out'[k].type = "printf"
               /\ out'[k].sheriff_id = last'.orders.cmds[k].sheriff_id
         /\ table' = table
         /\ os' = os
         /\ sources' = sources
         /\ observed_sheriffs_slm' = observed_sheriffs_slm
         /\ last_sheriff_name' = last_sheriff_name]_vars

\* a stale order of two records from another sheriff arrived while a command
\* of the first sheriff was on the list
C10_Witness ==
    /\ StaleOrder(last, now)
    /\ Len(last.orders.cmds) = 2
    /\ Len(out) = 2
    /\ nstale_orders_slm = 1
    /\ last_sheriff_name = "sheriff"
    /\ last.orders.sheriff_name = "sheriff2"
    /\ Len(table) = 1

\* the last callback carried out the order that the previous accepted order was
Repeated ==
    /\ Accepted(last, now)
    /\ last.before.some
    /\ last.before.cmds = last.orders.cmds

\* no child was spawned and none was signalled
Quiet(o) == EventsOf(o, "spawn") = {} /\ EventsOf(o, "kill") = {}

DistinctSids(cmds) ==
    \A a, b \in Indices(cmds) : cmds[a].sheriff_id = cmds[b].sheriff_id => a = b

\* C8 as stated: an accepted order that is applied again, with no other order
\* in between, spawns nothing and signals nothing the second time.
C8_Original == Repeated => Quiet(out)

\* C8, amended: an accepted order that names every sheriff_id once, whose
\* first application called stop_cmd on no command and left no command
\* scheduled for removal, calls neither start_cmd nor stop_cmd when it is
\* applied again, whatever the children did in between: nothing is spawned
\* and nothing is signalled.
C8_Idempotent ==
    (/\ Repeated
     /\ ~last.before.stop
     /\ ~last.before.doomed
     /\ DistinctSids(last.orders.cmds)) =>
        /\ Quiet(out)
        /\ EventsOf(out, "start") = {}
        /\ EventsOf(out, "stop") = {}

\* an order for two commands was applied again after both children, started
\* under it, had exited and been reaped: neither was started again
C8_Witness ==
    /\ Repeated
    /\ ~last.before.stop
    /\ ~last.before.doomed
    /\ DistinctSids(last.orders.cmds)
    /\ Len(last.orders.cmds) = 2
    /\ \A k \in EventsOf(out, "reconcile") :
          /\ out[k].pid = 0
          /\ ~out[k].force_quit
          /\ out[k].actual_runid = 1
          /\ out[k].desired_runid = 1

ForceQuitAll(cmds) == cmds # <<>> /\ \A k \in Indices(cmds) : cmds[k].force_quit

\* b2 is b1 with force_quit false and the next desired_runid in every record
Bumped(b1, b2) ==
    /\ Len(b1) = Len(b2)
    /\ \A k \in Indices(b1) :
          b2[k] = [b1[k] EXCEPT !.force_quit = FALSE, !.desired_runid = @ + 1]

\* the last callback carried out the bumped batch of the force_quit batch that
\* the previous accepted order was
Restarting ==
    /\ Accepted(last, now)
    /\ last.before.some
    /\ ForceQuitAll(last.before.cmds)
    /\ Bumped(last.before.cmds, last.orders.cmds)

StartFailed(o) == \E k \in EventsOf(o, "printf") : o[k].text = "ERROR!  couldn't start"

EventsFor(o, type, sid) == {k \in EventsOf(o, type) : o[k].sheriff_id = sid}

\* C9 as stated: when the bumped batch has been carried out (and no fork
\* failed), each of its commands was spawned exactly once and runs with
\* actual_runid equal to the bumped desired_runid.
C9_Original ==
    (Restarting /\ ~StartFailed(out)) =>
        \A k \in Indices(last.orders.cmds) :
            /\ Cardinality(EventsFor(out, "spawn", last.orders.cmds[k].sheriff_id)) = 1
            /\ \E i \in HandlesOf(table, last.orders.cmds[k].sheriff_id) :
                  /\ table[i].pid # 0
                  /\ table[i].actual_runid = last.orders.cmds[k].desired_runid

\* C9, amended: when the bumped batch names every sheriff_id once, a command
\* that is stopped when the batch reaches it (reaped, or never run) has
\* start_cmd called once and gets the bumped desired_runid as actual_runid,
\* with one spawn unless the fork fails, provided its actual_runid was not
\* that value already, in which case it is not started; a command whose child
\* is still running is not restarted by the batch: it keeps its pid and
\* actual_runid, and stop_cmd is called on it exactly when its actual_runid
\* differs from the bumped desired_runid.
C9_Restart ==
    (Restarting /\ DistinctSids(last.orders.cmds)) =>
        \A k \in EventsOf(out, "reconcile") :
          \A i \in HandlesOf(table, out[k].sheriff_id) :
            /\ (out[k].pid = 0 /\ out[k].actual_runid # out[k].desired_runid) =>
                  /\ Cardinality(EventsFor(out, "start", out[k].sheriff_id)) = 1
                  /\ Cardinality(EventsFor(out, "spawn", out[k].sheriff_id))
                        = IF StartFailed(out) THEN 0 ELSE 1
                  /\ table[i].actual_runid = out[k].desired_runid
                  /\ table[i].pid # 0 <=> ~StartFailed(out)
            /\ (out[k].pid = 0 /\ out[k].actual_runid = out[k].desired_runid) =>
                  /\ EventsFor(out, "start", out[k].sheriff_id) = {}
                  /\ table[i].pid = 0
            /\ out[k].pid # 0 =>
                  /\ EventsFor(out, "start", out[k].sheriff_id) = {}
                  /\ EventsFor(out, "stop", out[k].sheriff_id) # {}
                        <=> out[k].actual_runid # out[k].desired_runid
                  /\ table[i].pid = out[k].pid
                  /\ table[i].actual_runid = out[k].actual_runid

\* the bumped batch found one of its two commands reaped and started it, and
\* found the other still running
C9_Witness ==
    /\ Restarting
    /\ DistinctSids(last.orders.cmds)
    /\ Len(last.orders.cmds) = 2
    /\ \E k \in EventsOf(out, "reconcile") :
          out[k].pid = 0 /\ EventsFor(out, "spawn", out[k].sheriff_id) # {}
    /\ \E k \in EventsOf(out, "reconcile") : out[k].pid # 0

\* l is an order for another deputy
Misaddressed(l) == l.kind = "order" /\ l.orders.host # Hostname

\* C11: an order whose host is not this deputy's adds one to norders_slm and
\* does nothing else: norders_forme_slm, nstale_orders_slm, the observed
\* sheriffs, the last sheriff name, the command list, the processes and the
\* watches are as before, and no message is published.
C11_Misaddressed ==
    [][Misaddressed(last') =>
         /\ norders_slm' = norders_slm + 1
         /\ norders_forme_slm' = norders_forme_slm
         /\ nstale_orders_slm' = nstale_orders_slm
         /\ observed_sheriffs_slm' = observed_sheriffs_slm
         /\ last_sheriff_name' = last_sheriff_name
         /\ table' = table
         /\ os' = os
         /\ sources' = sources
         /\ sigchld' = sigchld
         /\ out' = <<>>]_vars

\* an order of two records for another host, from another sheriff, arrived
\* while a command was on the list
C11_Witness ==
    /\ Misaddressed(last)
    /\ Len(last.orders.cmds) = 2
    /\ norders_slm = 1
    /\ norders_forme_slm = 0
    /\ last_sheriff_name = "sheriff"
    /\ last.orders.sheriff_name = "sheriff2"
    /\ Len(table) = 1

\* C12: in every state norders_forme_slm is at most norders_slm and
\* nstale_orders_slm is at most norders_forme_slm.
C12_CounterOrder ==
    /\ norders_forme_slm <= norders_slm
    /\ nstale_orders_slm <= norders_forme_slm

\* an order for another host, a stale one and an accepted one have been
\* counted since the last MARK
C12_Witness ==
    /\ norders_slm = 3
    /\ norders_forme_slm = 2
    /\ nstale_orders_slm = 1

\* the record cmd asks for nothing but another name of the running command c
RenameOnly(c, cmd) ==
    /\ c.sheriff_id = cmd.sheriff_id
    /\ c.pid # 0
    /\ c.name # cmd.name
    /\ c.nickname = cmd.nickname
    /\ c.group = cmd.group
    /\ c.actual_runid = cmd.desired_runid
    /\ ~cmd.force_quit

\* C13: when an accepted order names a running command once and differs from
\* it in the name only (same run id, no force_quit), the command keeps its
\* pid, actual_runid, kill counters, watch and everything else but the name,
\* which becomes the order's; neither start_cmd nor stop_cmd is called,
\* nothing is spawned or signalled, and one PMD_INFO is published, with the
\* new name.
C13_RenameRunning ==
    [][(Accepted(last', now') /\ DistinctSids(last'.orders.cmds)) =>
         \A k \in Indices(last'.orders.cmds), i \in Indices(table) :
            RenameOnly(table[i], last'.orders.cmds[k]) =>
              /\ \E j \in Indices(table') :
                    table'[j] = [table[i] EXCEPT !.name = last'.orders.cmds[k].name]
              /\ table[i].stdout_sid \in DOMAIN sources'
              /\ sources'[table[i].stdout_sid] = sources[table[i].stdout_sid]
              /\ os'[table[i].pid] = os[table[i].pid]
              /\ EventsFor(out', "start", table[i].sheriff_id) = {}
              /\ EventsFor(out', "stop", table[i].sheriff_id) = {}
              /\ EventsFor(out', "spawn", table[i].sheriff_id) = {}
              /\ EventsFor(out', "kill", table[i].sheriff_id) = {}
              /\ Cardinality(EventsOf(out', "info")) = 1
              /\ \A e \in EventsOf(out', "info") :
                    \E j \in Indices(out'[e].cmds) :
                        /\ out'[e].cmds[j].sheriff_id = table[i].sheriff_id
                        /\ out'[e].cmds[j].name = last'.orders.cmds[k].name
                        /\ out'[e].cmds[j].pid = table[i].pid]_vars

\* a running command was renamed: the order found it running, called neither
\* start_cmd nor stop_cmd, and yet published PMD_INFO
C13_Witness ==
    /\ Accepted(last, now)
    /\ Len(last.orders.cmds) = 1
    /\ last.orders.cmds[1].name = "b"
    /\ \E k \in EventsOf(out, "reconcile") : out[k].pid # 0
    /\ EventsOf(out, "stop") = {}
    /\ EventsOf(out, "info") # {}
    /\ Len(table) = 1
    /\ table[1].name = "b"
    /\ table[1].pid # 0

\* C14: remove_requested of a command never goes back from true to false, and
\* after no callback does the list hold a command with remove_requested set
\* and pid = 0: the SIGCHLD handling that reaps such a command deletes it.
C14_RemoveRequested ==
    [][/\ \A i \in Indices(table), j \in Indices(table') :
              (SameCmd(table, i, table', j) /\ table[i].remove_requested)
                  => table'[j].remove_requested
       /\ \A j \in Indices(table') :
              ~(table'[j].remove_requested /\ table'[j].pid = 0)]_vars

\* a SIGCHLD handling reaped the child of the one command left, which was
\* scheduled for removal, and deleted it: the telemetry shows an empty list
C14_Witness ==
    /\ last.kind = "sigchld"
    /\ table = <<>>
    /\ \E k \in EventsOf(out, "info") : out[k].cmds = <<>>

\* C15: no PMD_INFO reports a command as exited (pid = 0) while its stdout
\* watch is still attached; the watch is taken off after the pipe has been
\* drained (lines 322-354), so a command reported as exited has had its last
\* output forwarded and its watch removed, also when several children are
\* reaped by one call of check_for_dead_children.
C15_FlushBeforeExitNotice ==
    \A k \in EventsOf(out, "info") :
        \A j \in Indices(out[k].cmds) :
            out[k].cmds[j].pid = 0 => ~out[k].cmds[j].stdout_ioc

\* the commands whose child has exited and has not been reaped
Exited(tbl, procs) ==
    {i \in Indices(tbl) : /\ tbl[i].pid # 0
                          /\ tbl[i].pid \in DOMAIN procs
                          /\ procs[tbl[i].pid].proc = "zombie"}

\* C16: one handling of SIGCHLD reaps every child that has exited: when it
\* returns no exited child is left unreaped, each reaped command is off the
\* list or has pid = 0, no watch and no pipe, the pipe and the watch of each
\* reaped child are gone, and one PMD_INFO was published for each of them.
C16_ReapAll ==
    [][last'.kind = "sigchld" =>
         /\ Exited(table', os') = {}
         /\ \A i \in Exited(table, os) :
               /\ table[i].pid \notin DOMAIN os'
               /\ table[i].pid \notin DOMAIN sources'
               /\ \A j \in Indices(table') :
                     SameCmd(table, i, table', j) =>
                        /\ table'[j].pid = 0
                        /\ ~table'[j].stdout_ioc
                        /\ table'[j].stdout_sid = 0
                        /\ table'[j].stdout_fd = 0
         /\ Cardinality(EventsOf(out', "info")) = Cardinality(Exited(table, os))]_vars

\* one SIGCHLD handling reaped two children: two snapshots, and both commands,
\* still on the list, are not running
C16_Witness ==
    /\ last.kind = "sigchld"
    /\ Cardinality(EventsOf(out, "info")) = 2
    /\ Len(table) = 2
    /\ \A i \in Indices(table) : table[i].pid = 0 /\ ~table[i].stdout_ioc

\* the commands of the list that are running
Running(tbl) == {i \in Indices(tbl) : tbl[i].pid # 0}

\* C17: the handler of a shutdown signal calls stop_cmd on every command that
\* is running and then tells the main loop to quit; once the loop has been
\* told to quit, no order and no 1 s tick is handled any more.
C17_Shutdown ==
    [][/\ last'.kind = "quit" =>
             /\ quit'
             /\ \A i \in Running(table) :
                   EventsOn(out', "stop", table[i].pid) # {}
       /\ (quit /\ last' # last) => last'.kind \notin {"order", "tick"}]_vars

\* start_cmd was called for the command sid and spawned nothing
FailedStart(o, sid) ==
    EventsFor(o, "start", sid) # {} /\ EventsFor(o, "spawn", sid) = {}

\* C18: when start_cmd fails for a command that an accepted order names once,
\* the command stays on the list with pid = 0 and without a stdout watch, its
\* num_kills_sent and last_kill_time are what they were (0 for a command the
\* order created), the loop goes on to every other record of the order, and
\* the deputy is not told to quit.
C18_StartFails ==
    [][(Accepted(last', now') /\ DistinctSids(last'.orders.cmds)) =>
         \A k \in Indices(last'.orders.cmds) :
            FailedStart(out', last'.orders.cmds[k].sheriff_id) =>
              /\ \E j \in HandlesOf(table', last'.orders.cmds[k].sheriff_id) :
                    /\ table'[j].pid = 0
                    /\ ~table'[j].stdout_ioc
                    /\ table'[j].stdout_sid = 0
                    /\ \A i \in HandlesOf(table, last'.orders.cmds[k].sheriff_id) :
                          /\ table'[j].num_kills_sent = table[i].num_kills_sent
                          /\ table'[j].last_kill_time = table[i].last_kill_time
                    /\ HandlesOf(table, last'.orders.cmds[k].sheriff_id) = {} =>
                          /\ table'[j].num_kills_sent = 0
                          /\ table'[j].last_kill_time = 0
              /\ Cardinality(EventsOf(out', "reconcile")) = Len(last'.orders.cmds)
              /\ ~quit']_vars

\* the start of the first of two commands failed, for a command that had been
\* signalled in an earlier run, and the second command was reconciled after it
C18_Witness ==
    /\ Accepted(last, now)
    /\ Len(last.orders.cmds) = 2
    /\ FailedStart(out, last.orders.cmds[1].sheriff_id)
    /\ \E j \in HandlesOf(table, last.orders.cmds[1].sheriff_id) :
          table[j].pid = 0 /\ table[j].num_kills_sent > 0
    /\ \E e \in EventsOf(out, "reconcile"), f \in EventsOf(out, "start") :
          /\ out[e].sheriff_id = last.orders.cmds[2].sheriff_id
          /\ out[f].sheriff_id = last.orders.cmds[1].sheriff_id
          /\ f < e

\* the order before asked for the same run of cmd, with force_quit false too
SameRun(before, cmd) ==
    \E m \in Indices(before) :
        /\ before[m].sheriff_id = cmd.sheriff_id
        /\ before[m].desired_runid = cmd.desired_runid
        /\ ~before[m].force_quit

\* C19: when start_cmd failed for a command while an accepted order was carried
\* out, and the next accepted order names the command again (each order names
\* it once) with force_quit false and the same desired_runid, start_cmd is
\* called for it again.
C19_RetryStart ==
    (/\ Accepted(last, now)
     /\ last.before.some
     /\ DistinctSids(last.orders.cmds)
     /\ DistinctSids(last.before.cmds)) =>
        \A k \in Indices(last.orders.cmds) :
            (/\ last.orders.cmds[k].sheriff_id \in last.before.failed
             /\ ~last.orders.cmds[k].force_quit
             /\ SameRun(last.before.cmds, last.orders.cmds[k])) =>
                EventsFor(out, "start", last.orders.cmds[k].sheriff_id) # {}

\* stop_cmd was called on a running child while an accepted order was carried out
Requested == Accepted(last, now) /\ \E k \in EventsOf(out, "stop") : out[k].pid # 0

\* SIGKILL was sent
Killed == \E k \in EventsOf(out, "kill") : out[k].sig = "SIGKILL"

\* an accepted order found the child running and did not call stop_cmd
Spared == Accepted(last, now) /\ Running(table) # {} /\ EventsOf(out, "stop") = {}

\* the clock of SpecLive stops after MaxBeats periods: a request made up to
\* Horizon leaves the periods that the whole escalation takes
Horizon == StartTime + (MaxBeats - (MAX_TERM_KILLS + 1)) * Period

\* C20 as stated: once stop_cmd has been called on a running child that ignores
\* SIGTERM, the child is eventually sent SIGKILL.
C20_Original == (Requested /\ now <= Horizon) ~> Killed

\* C20, amended: if the orders of the sheriff keep arriving, a period apart,
\* then once stop_cmd has been called on a running child that ignores SIGTERM,
\* the child is eventually sent SIGKILL, unless one of these orders finds it
\* running and does not ask for its termination.
C20_Escalates ==
    SF_vars(SheriffBeat) => ((Requested /\ now <= Horizon) ~> (Killed \/ Spared))

\* the seventh signal of an escalation is SIGKILL
C20_Witness ==
    /\ Requested
    /\ Killed
    /\ \E i \in Indices(table) : table[i].num_kills_sent = MAX_TERM_KILLS + 2

\* C21: after a 1 s tick that had a sample before it to compare with, cpu_load
\* is in [0, 1]: it is 0 when elapsed is 0, and loaded / elapsed with
\* loaded <= elapsed otherwise.
C21_CpuLoad ==
    [][(last'.kind = "tick" /\ last' # last /\ cpu_time[0] # NoSample) =>
          /\ cpu_load'.den # U64(0)
          /\ ~Less64(cpu_load'.den, cpu_load'.num)
          /\ (\E n \in CounterLimbs :
                 ellapsed_jiffies(cpu_time'[1], cpu_time[0], n) = U64(0)) =>
                cpu_load'.num = U64(0)]_vars

\* C22: a command leaves the list only when it is not running (its pid was 0
\* when the callback began, or the callback reaped its exited child before it
\* took the command off the list), and no callback destroys a command that is
\* running: the private data is freed and procman_remove_cmd called (lines
\* 301-306, 360-365, 750-755) for commands with pid = 0 only.
C22_RemoveStopped ==
    [][/\ \A i \in Indices(table) :
             HandlesOf(table', table[i].sheriff_id) = {} =>
                \/ table[i].pid = 0
                \/ /\ last'.kind = "sigchld"
                   /\ os[table[i].pid].proc = "zombie"
       /\ \A j \in Indices(table') : ~table'[j].user => table'[j].pid = 0]_vars

\* C23: no stdout watch is attached to the main loop for a command that has
\* been destroyed: every watch belongs to a command of the list whose private
\* data has not been freed.
C23_NoWatchOnFreed ==
    \A pid \in DOMAIN sources :
        \E i \in Indices(table) :
            /\ table[i].stdout_ioc
            /\ table[i].stdout_sid = pid
            /\ table[i].user

\* the name, nickname and group of a command or of a command record
Label(c) == <<c.name, c.nickname, c.group>>

\* the order differs in a label from the command it names, or names one
\* command twice with two labels
Relabelled(tbl, cmds) ==
    \E k \in Indices(cmds) :
        \/ \E i \in HandlesOf(tbl, cmds[k].sheriff_id) : Label(tbl[i]) # Label(cmds[k])
        \/ \E j \in Indices(cmds) : /\ cmds[j].sheriff_id = cmds[k].sheriff_id
                                     /\ Label(cmds[j]) # Label(cmds[k])

\* what the claim counts as an action of the order cmds on the list tbl, with
\* o the calls the handler made
ActionTaken(tbl, cmds, o) ==
    \/ \E k \in Indices(cmds) : HandlesOf(tbl, cmds[k].sheriff_id) = {}
    \/ Relabelled(tbl, cmds)
    \/ EventsOf(o, "start") # {}
    \/ EventsOf(o, "stop") # {}
    \/ \E i \in Indices(tbl) : ~Names(cmds, tbl[i].sheriff_id)

\* C24: an accepted order publishes PMD_INFO once, as the last thing it does
\* and with the list as the order leaves it, when it created a command,
\* changed a name, nickname or group, called start_cmd or stop_cmd or culled
\* an orphan; otherwise (the order matches the list) it publishes none.
C24_InfoIffAction ==
    [][(Accepted(last', now') /\ last' # last) =>
          IF ActionTaken(table, last'.orders.cmds, out')
          THEN /\ EventsOf(out', "info") = {Len(out')}
               /\ out'[Len(out')].cmds = table'
          ELSE EventsOf(out', "info") = {}]_vars

\* an order changed the nickname of a running command and nothing else, and
\* published PMD_INFO
C24_Witness ==
    /\ Accepted(last, now)
    /\ Len(last.orders.cmds) = 1
    /\ last.orders.cmds[1].nickname = "nick2"
    /\ last.orders.cmds[1].name = "a"
    /\ last.orders.cmds[1].group = "group"
    /\ \E k \in EventsOf(out, "reconcile") : out[k].pid # 0
    /\ EventsOf(out, "stop") = {}
    /\ EventsOf(out, "info") = {Len(out)}
    /\ Len(out) = 2

\* C25: when the kill of a stop_cmd call fails, the command stays on the list
\* with its pid and its child as it was, the failure is published to the
\* command's subscribers right after the call, num_kills_sent is one higher
\* and last_kill_time is the time of the call; the signal of the call is
\* SIGTERM for the first six attempts on the run and SIGKILL from the seventh
\* on, whether the earlier attempts failed or not.
C25_KillFails ==
    [][last' # last =>
         \A k \in EventsOf(out', "kill") :
            ~out'[k].ok =>
               \E j \in Indices(table') :
                  /\ table'[j].pid = out'[k].pid
                  /\ table'[j].sheriff_id = out'[k].sheriff_id
                  /\ Follows(out', k, "printf")
                  /\ out'[k + 1].text = "kill: error"
                  /\ table'[j].num_kills_sent = Len(os'[out'[k].pid].sigs)
                  /\ table'[j].last_kill_time = now'
                  /\ out'[k].sig = IF Len(os'[out'[k].pid].sigs) > MAX_TERM_KILLS + 1
                                   THEN "SIGKILL" ELSE "SIGTERM"
                  /\ \A i \in Indices(table) :
                        table[i].pid = out'[k].pid =>
                           /\ table[i].sheriff_id = table'[j].sheriff_id
                           /\ os'[out'[k].pid].proc = os[out'[k].pid].proc
                           /\ table'[j].num_kills_sent = table[i].num_kills_sent + 1]_vars

\* six SIGTERMs to one run all failed, and the seventh attempt, which failed
\* too, was a SIGKILL
C25_Witness ==
    \E pid \in DOMAIN os :
        /\ Len(os[pid].sigs) = 7
        /\ \A k \in Indices(os[pid].sigs) : ~os[pid].sigs[k].ok
        /\ os[pid].sigs[7].sig = "SIGKILL"
        /\ os[pid].proc = "alive"
        /\ \E k \in EventsOn(out, "kill", pid) : ~out[k].ok
        /\ \E i \in Indices(table) : table[i].pid = pid /\ table[i].num_kills_sent = 7

\* the time of the last signal of a run, 0 when it was sent none
LastSignal(sigs) == IF sigs = <<>> THEN 0 ELSE sigs[Len(sigs)].t

\* C26: num_kills_sent and last_kill_time of a running command count the
\* signals attempted on its present run only (0 and unset when it was sent
\* none, as after start_cmd); they change only in a callback that spawned the
\* command or signalled it; and the first stop_cmd call on a run that was
\* sent no signal yet is not held back and sends SIGTERM.
C26_FreshCounters ==
    [][/\ \A j \in Indices(table') :
             table'[j].pid # 0 =>
                /\ table'[j].num_kills_sent = Len(os'[table'[j].pid].sigs)
                /\ table'[j].last_kill_time = LastSignal(os'[table'[j].pid].sigs)
       /\ \A i \in Indices(table), j \in Indices(table') :
             (/\ table'[j].sheriff_id = table[i].sheriff_id
              /\ \/ table'[j].num_kills_sent # table[i].num_kills_sent
                 \/ table'[j].last_kill_time # table[i].last_kill_time) =>
                \/ EventsFor(out', "spawn", table[i].sheriff_id) # {}
                \/ EventsFor(out', "kill", table[i].sheriff_id) # {}
       /\ \A i \in Indices(table) :
             (/\ last' # last
              /\ table[i].pid # 0
              /\ os[table[i].pid].sigs = <<>>
              /\ EventsOn(out', "stop", table[i].pid) # {}) =>
                \E k \in EventsOn(out', "kill", table[i].pid) :
                    out'[k].sig = "SIGTERM"]_vars

\* the order before called stop_cmd on the command; this order started it
\* again and, in the same callback and at the same time of the clock, called
\* stop_cmd on the new run, which was sent its first SIGTERM
C26_Witness ==
    /\ Accepted(last, now)
    /\ last.before.some
    /\ last.before.stop
    /\ \A k \in Indices(last.before.cmds) : last.before.cmds[k].sheriff_id = 1
    /\ Len(table) = 1
    /\ table[1].pid # 0
    /\ table[1].num_kills_sent = 1
    /\ table[1].last_kill_time = now
    /\ \E k \in EventsOn(out, "spawn", table[1].pid) :
          \E m \in EventsOn(out, "kill", table[1].pid) :
              k < m /\ out[m].sig = "SIGTERM"

\* C27: an accepted order that names a running command whose removal was
\* requested leaves it the one command of its sheriff_id, with its pid and
\* with the request standing; and the SIGCHLD handling that reaps the child
\* of a command whose removal was requested takes the command off the list,
\* whatever the orders since the request named.
C27_RemovalStands ==
    [][/\ (Accepted(last', now') /\ last' # last) =>
             \A i \in Indices(table) :
                (/\ table[i].remove_requested
                 /\ table[i].pid # 0
                 /\ Names(last'.orders.cmds, table[i].sheriff_id)) =>
                   /\ Cardinality(HandlesOf(table', table[i].sheriff_id)) = 1
                   /\ \A j \in HandlesOf(table', table[i].sheriff_id) :
                         /\ table'[j].remove_requested
                         /\ table'[j].pid = table[i].pid
       /\ (last'.kind = "sigchld" /\ last' # last) =>
             \A i \in Indices(table) :
                (/\ table[i].remove_requested
                 /\ table[i].pid # 0
                 /\ os[table[i].pid].proc = "zombie") =>
                   HandlesOf(table', table[i].sheriff_id) = {}]_vars

\* the last accepted order named command 1, whose removal an earlier order
\* had requested, and left it scheduled for removal; its child has been
\* reaped since and the list has no command 1
C27_Witness ==
    /\ last.kind = "sigchld"
    /\ prev.some
    /\ prev.doomed
    /\ Names(prev.cmds, 1)
    /\ ~Names(prev.cmds, 2)
    /\ HandlesOf(table, 1) = {}

\* C28: when the handler of a shutdown signal has run (remove_all_cmds, then
\* g_main_loop_quit), every command that was running when it began has had a
\* signal attempted on its present run, by this handler or, when the rate
\* limit held this handler's stop_cmd back, by an earlier callback.
C28_QuitSignalsAll ==
    [][(last'.kind = "quit" /\ last' # last) =>
          /\ quit'
          /\ \A i \in Running(table) :
                /\ EventsOn(out', "stop", table[i].pid) # {}
                /\ os'[table[i].pid].sigs # <<>>
                /\ EventsOn(out', "kill", table[i].pid) = {} =>
                      /\ os[table[i].pid].sigs # <<>>
                      /\ table[i].last_kill_time # 0
                      /\ now' < table[i].last_kill_time + KILL_MIN_INTERVAL_USEC]_vars

\* the shutdown handler called stop_cmd on a running command and the rate
\* limit held it back: the run had been signalled less than 900 ms before
C28_Witness ==
    /\ last.kind = "quit"
    /\ quit
    /\ \E i \in Running(table) :
          /\ EventsOn(out, "stop", table[i].pid) # {}
          /\ EventsOn(out, "kill", table[i].pid) = {}
          /\ Len(os[table[i].pid].sigs) = 1
          /\ os[table[i].pid].proc = "alive"

\* the first record of the order reconciled for the command sid: the event
\* that reports what lines 705-717 found, 0 when the order does not name sid
FirstReconciled(o, sid) ==
    IF EventsFor(o, "reconcile", sid) = {} THEN 0
    ELSE Min(EventsFor(o, "reconcile", sid))

\* the record asks for a run: no force_quit and a run id other than 0
WantsRun(e) == ~e.force_quit /\ e.desired_runid # 0

\* C29: the command an accepted order creates for a sheriff_id the list did
\* not have is found by lines 705-717 with pid = 0 and actual_runid = 0;
\* start_cmd is called for that record exactly when force_quit is false and
\* desired_runid is not 0, and the child is then spawned unless
\* procman_start_cmd fails; when the order names the command once, that is the
\* only way it is started in this callback.  A stopped command with
\* actual_runid = 0 is not started by an order whose records for it all have
\* desired_runid = 0.
C29_FirstSeen ==
    [][(Accepted(last', now') /\ last' # last) =>
          /\ \A c \in Indices(last'.orders.cmds) :
                HandlesOf(table, last'.orders.cmds[c].sheriff_id) = {} =>
                   \E k \in {FirstReconciled(out', last'.orders.cmds[c].sheriff_id)} :
                      /\ k # 0
                      /\ out'[k].pid = 0
                      /\ out'[k].actual_runid = 0
                      /\ Follows(out', k, "start") <=> WantsRun(out'[k])
                      /\ Follows(out', k, "start") =>
                            \/ Follows(out', k + 1, "spawn")
                            \/ /\ k + 3 <= Len(out')
                               /\ out'[k + 3].type = "printf"
                               /\ out'[k + 3].text = "ERROR!  couldn't start"
                      /\ DistinctSids(last'.orders.cmds) =>
                            /\ Cardinality(HandlesOf(table', out'[k].sheriff_id)) = 1
                            /\ EventsFor(out', "start", out'[k].sheriff_id) # {}
                                  <=> WantsRun(out'[k])
                            /\ \A j \in HandlesOf(table', out'[k].sheriff_id) :
                                  table'[j].pid # 0 <=> Spawned(out', out'[k].sheriff_id)
          /\ \A i \in Indices(table) :
                (/\ table[i].pid = 0
                 /\ table[i].actual_runid = 0
                 /\ \A c \in Indices(last'.orders.cmds) :
                       last'.orders.cmds[c].sheriff_id = table[i].sheriff_id =>
                          last'.orders.cmds[c].desired_runid = 0) =>
                   EventsFor(out', "start", table[i].sheriff_id) = {}]_vars

\* an order created a command with desired_runid = 0 and force_quit false: it
\* is on the list, and published, but was not started
C29_Witness ==
    /\ Accepted(last, now)
    /\ Len(last.orders.cmds) = 1
    /\ ~last.orders.cmds[1].force_quit
    /\ last.orders.cmds[1].desired_runid = 0
    /\ Len(out) = 2
    /\ out[1].type = "reconcile"
    /\ out[1].pid = 0
    /\ out[2].type = "info"
    /\ Len(table) = 1
    /\ table[1].pid = 0
    /\ table[1].actual_runid = 0

====
